---- MODULE Spec2Model ----
(***************************************************************************)
(* Audit recording, request-context propagation and image provenance       *)
(* tracking of the church content backend (api/audit_middleware.py,        *)
(* api/signals.py, api/models.py, church_backend/settings.py).             *)
(*                                                                         *)
(* Threads serve requests one at a time; a write calls Model.save() or     *)
(* Model.delete(), and Django then calls the receivers connected to        *)
(* post_save / pre_delete / post_delete for the sender, in connection      *)
(* order, letting the first exception a receiver raises travel to the      *)
(* caller.                                                                 *)
(***************************************************************************)
EXTENDS Naturals, Sequences, FiniteSets, TLC

\* ------------------------------------------------------------------ bounds
\* Writes and login attempts in one behaviour.
MaxOps == 2
\* Writes in one behaviour of SpecImages.
MaxImageOps == 3
\* Rows one table ever receives (primary keys are never reused).
MaxId == 2
\* Writes, raw deletions and sweeps in one behaviour of SpecReconcile.
MaxSweepOps == 5
\* Runs of update_exchange_rates in one behaviour.
MaxRefreshes == 2
\* Calls of setup_scheduler in one behaviour.
MaxSetups == 2
\* Midnights each scheduler processes.
MaxDays == 2

\* ------------------------------------------------------------ vocabulary
\* Python's None, and the state of a thread that has no `request` attribute
\* (reading it raises AttributeError).
None == "None"
NoAttr == "<no attribute>"
\* A NULL object_id (ids start at 1).
NullId == 0

\* settings.MIDDLEWARE as shipped.
MIDDLEWARE ==
    { "corsheaders.middleware.CorsMiddleware",
      "django.middleware.security.SecurityMiddleware",
      "django.contrib.sessions.middleware.SessionMiddleware",
      "django.middleware.common.CommonMiddleware",
      "django.middleware.csrf.CsrfViewMiddleware",
      "django.contrib.auth.middleware.AuthenticationMiddleware",
      "django.contrib.messages.middleware.MessageMiddleware",
      "django.middleware.clickjacking.XFrameOptionsMiddleware" }

\* The dotted path under which the class of audit_middleware.py is mounted.
AuditLoggingMiddleware == "api.audit_middleware.AuditLoggingMiddleware"

\* The models audit_middleware.py connects its receivers to.
TRACKED_MODELS ==
    { "HomeBanner", "ChurchInfo", "HeadPastor", "ServiceTime",
      "Leader", "PhotoGallery", "Sermon", "Event", "Branch",
      "GivingInfo", "GivingImage", "ContactMessage", "Testimony", "Book",
      "ExchangeRate", "Merchandise" }

\* The post_save.connect(log_image_upload, sender=...) calls of signals.py,
\* in file order: nine models, then Merchandise once more at the end.
post_save_connects ==
    << "HomeBanner", "HeadPastor", "Leader", "PhotoGallery", "Sermon",
       "Event", "GivingImage", "Branch", "Merchandise", "Merchandise" >>

\* The pre_delete.connect(cleanup_image_logs_on_delete, sender=...) calls.
pre_delete_connects ==
    << "HomeBanner", "HeadPastor", "Leader", "PhotoGallery", "Sermon",
       "Event", "GivingImage", "Branch", "Merchandise" >>

\* section_mapping of log_image_upload.
section_mapping ==
    [ k \in { "HomeBanner", "HeadPastor", "Leader", "PhotoGallery", "Sermon",
              "Event", "GivingImage", "Branch", "Merchandise" } |->
        CASE k = "HomeBanner" -> "Home Banner"
          [] k = "HeadPastor" -> "Head Pastor"
          [] k = "Leader" -> "Church Leader"
          [] k = "PhotoGallery" -> "Photo Gallery"
          [] k = "Sermon" -> "Sermon"
          [] k = "Event" -> "Event"
          [] k = "GivingImage" -> "Giving Page"
          [] k = "Branch" -> "Branch"
          [] k = "Merchandise" -> "Merchandise" ]

\* The name of the ImageField each model declares ("" when it declares none).
ImageFieldName(k) ==
    CASE k \in { "HomeBanner", "HeadPastor", "PhotoGallery", "Event", "Branch",
                 "GivingImage", "Testimony", "Book", "Merchandise" } -> "image"
      [] k = "Leader" -> "profile_picture"
      [] k = "Sermon" -> "custom_thumbnail"
      [] OTHER -> ""

\* Models whose save() refuses a second row.
Singletons == { "ChurchInfo", "HeadPastor", "GivingInfo" }

\* Models served by a ModelViewSet (create/update/delete over the API, with
\* no permission class); the others are ReadOnlyModelViewSets.
ApiWritable ==
    { "HomeBanner", "ServiceTime", "Leader", "PhotoGallery", "Sermon", "Event",
      "Branch", "GivingImage", "ContactMessage", "Testimony", "Book",
      "Merchandise" }

\* on_delete=CASCADE foreign keys: child model -> parent model.
CascadeParent(k) ==
    CASE k = "GivingImage" -> "GivingInfo"
      [] k = "ServiceTime" -> "Branch"
      [] OTHER -> None

\* ---------------------------------------------------------------- inputs
\* The models with a table of rows.
Kinds == TRACKED_MODELS

\* Threads that serve requests, and the scheduler's own thread.
Workers == { "w1", "w2" }
SchedulerThread == "scheduler"
Threads == Workers \cup { SchedulerThread }

\* Requests, by name.  META holds the headers get_client_ip and
\* get_request_user_agent read; a header that was not sent is None.
RequestIds == { "req_alice", "req_bob", "req_anon" }
Request ==
    [ r \in RequestIds |->
        CASE r = "req_alice" ->
               [ user |-> "alice", is_authenticated |-> TRUE,
                 HTTP_X_FORWARDED_FOR |-> <<"203.0.113.7", "10.0.0.1">>,
                 REMOTE_ADDR |-> "10.0.0.1", HTTP_USER_AGENT |-> "Firefox" ]
          [] r = "req_bob" ->
               [ user |-> "bob", is_authenticated |-> TRUE,
                 HTTP_X_FORWARDED_FOR |-> <<>>,
                 REMOTE_ADDR |-> "10.0.0.2", HTTP_USER_AGENT |-> "curl" ]
          [] r = "req_anon" ->
               [ user |-> "AnonymousUser", is_authenticated |-> FALSE,
                 HTTP_X_FORWARDED_FOR |-> <<>>,
                 REMOTE_ADDR |-> "10.0.0.3", HTTP_USER_AGENT |-> None ] ]

\* What can go wrong inside a receiver during one write: nothing, the
\* AuditLog insert, the ContentType lookup, reading the file's size, the
\* ImageLog insert.
Faults == { "none", "audit", "content_type", "file_size", "image_log" }

\* The processes that run update_exchange_rates: the scheduler's thread, and
\* an operator (or the scheduler of a second server process) running the
\* command at the same time.
Runners == { SchedulerThread, "operator" }

\* id of the job setup_scheduler adds.
JobId == "update_exchange_rates"

\* A runner that is not inside handle(), no run and no response yet.
Idle == [ pc |-> "idle", rates |-> << >> ]
NoRefresh ==
    [ by |-> None, step |-> "none", fetch |-> "none", currency_code |-> None,
      rate |-> NullId, result |-> "none", fetches |-> 0 ]
\* `book_id` and `param` are the request a response answers and `at` the
\* time it was made; `queries` counts the ExchangeRate queries behind it.
NoResponse ==
    [ status |-> 0, success |-> FALSE, original_price |-> 0,
      converted_price |-> 0, currency_code |-> None, exchange_rate |-> 0,
      available_currencies |-> << >>, queries |-> 0,
      book_id |-> NullId, param |-> None, at |-> 0 ]

\* ApiConfig.ready() has run and nothing failed: the receivers of
\* api.signals are connected, one scheduler runs, nothing was logged.
\* `setups` counts the calls of setup_scheduler.
Started ==
    [ ready |-> TRUE, signals |-> TRUE, raised |-> FALSE, log |-> "none",
      setups |-> 1 ]
\* ready() has not run yet.
NotStarted ==
    [ ready |-> FALSE, signals |-> FALSE, raised |-> FALSE, log |-> "none",
      setups |-> 0 ]
\* No scheduler has processed a due run time yet.
NoWakeup == [ timer |-> 0, day |-> 0, delay |-> 0, outcome |-> "none" ]

\* The users that can log in: those the authenticated requests belong to.
Users == { Request[r].user : r \in { x \in RequestIds : Request[x].is_authenticated } }

\* No save() of a new singleton row is under way on a worker.
NoCreate == [ kind |-> None, file |-> FALSE ]

\* ----------------------------------------------------------------- state
VARIABLES
    middleware,      \* settings.MIDDLEWARE of the running process
    thread_request,  \* thread -> the `request` attribute of that thread
    running,         \* worker -> the request it is serving, or None
    entities,        \* the rows of the content tables
    nextId,          \* model -> next primary key of its table
    imageLogs,       \* the rows of ImageLog
    nextImageLogId,  \* next primary key of ImageLog
    auditLogs,       \* the rows of AuditLog, in insertion order
    ops,             \* writes and login attempts so far
    last,            \* the last write or login attempt and how it ended
    deleted_count,   \* what the last cleanup_image_logs run counted
    exchange_rates,  \* the rows of ExchangeRate, with their columns
    now,             \* the clock that auto_now reads
    jobs,            \* the job ids in the scheduler's job store
    refresh,         \* runner -> where its update_exchange_rates run stands
    refreshes,       \* update_exchange_rates runs started so far
    refreshed,       \* the last step of a run and how it ended
    response,        \* the last JsonResponse of a price view
    startup,         \* how ApiConfig.ready() went
    next_run,        \* for each entry of jobs, the day of its next run time
    wakeup,          \* the last due run time a scheduler processed
    users,           \* the rows of auth.User, by username
    pending          \* worker -> the new singleton row its save() is inserting

\* The state of the exchange-rate cache, its refresh job and the price views.
rateVars == << exchange_rates, now, jobs, refresh, refreshes, refreshed,
               response >>

\* The state of application startup and of the schedulers it starts.
schedVars == << startup, next_run, wakeup >>

\* The user table, and the save() calls of singleton models that have run
\* their check and not yet their INSERT.
adminVars == << users, pending >>

vars == << middleware, thread_request, running, entities, nextId, imageLogs,
           nextImageLogId, auditLogs, ops, last, deleted_count, rateVars,
           schedVars, adminVars >>

\* `ctx` is the `request` attribute the writing thread had, `by` the request
\* the write was made in (None outside any request), `fault` the step that
\* failed during the write.
NoOp ==
    [ op |-> "none", kind |-> None, id |-> NullId, ctx |-> NoAttr, by |-> None,
      fault |-> "none", outcome |-> "none" ]

\* The database is empty and no thread has served a request.  The process
\* runs with settings.MIDDLEWARE as shipped, or with AuditLoggingMiddleware
\* mounted in it, which is what the class is written for.
Init ==
    /\ middleware \in { MIDDLEWARE, MIDDLEWARE \cup { AuditLoggingMiddleware } }
    /\ thread_request = [ t \in Threads |-> NoAttr ]
    /\ running = [ t \in Workers |-> None ]
    /\ entities = {}
    /\ nextId = [ k \in Kinds |-> 1 ]
    /\ imageLogs = {}
    /\ nextImageLogId = 1
    /\ auditLogs = << >>
    /\ ops = 0
    /\ last = NoOp
    /\ deleted_count = 0
    /\ exchange_rates = {}
    /\ now = 1
    /\ jobs = << JobId >>
    /\ refresh = [ p \in Runners |-> Idle ]
    /\ refreshes = 0
    /\ refreshed = NoRefresh
    /\ response = NoResponse
    /\ startup = Started
    /\ next_run = << 1 >>
    /\ wakeup = NoWakeup
    /\ users = Users
    /\ pending = [ t \in Workers |-> NoCreate ]

\* ------------------------------------------------------ request context
\* get_client_ip: the first entry of X-Forwarded-For when the header is
\* there, else REMOTE_ADDR.
get_client_ip(request) ==
    IF Len(request.HTTP_X_FORWARDED_FOR) > 0
    THEN Head(request.HTTP_X_FORWARDED_FOR)
    ELSE request.REMOTE_ADDR

\* request.META.get('HTTP_USER_AGENT', '')
get_user_agent(request) ==
    IF request.HTTP_USER_AGENT = None THEN "" ELSE request.HTTP_USER_AGENT

\* AuditLoggingMiddleware.process_request: the request becomes an attribute
\* of the thread that runs it.  `tr` is the attribute of every thread.
process_request_shared(tr, t, r) == [ x \in DOMAIN tr |-> r ]
process_request(tr, t, r) == [ tr EXCEPT ![t] = r ]

\* get_request_user, on thread t whose attribute is `attr`.
get_request_user_any(attr) ==
    IF attr = NoAttr THEN None ELSE Request[attr].user
get_request_user(attr) ==
    IF attr = NoAttr THEN None
    ELSE IF Request[attr].is_authenticated THEN Request[attr].user ELSE None

get_request_ip(attr) ==
    IF attr = NoAttr THEN None ELSE get_client_ip(Request[attr])

get_request_user_agent(attr) ==
    IF attr = NoAttr THEN "" ELSE get_user_agent(Request[attr])

\* audit_middleware.py is imported, and so its receivers are connected, only
\* when Django loads it as a middleware: ApiConfig.ready imports api.signals
\* alone and no other module imports it.
AuditModuleLoaded == AuditLoggingMiddleware \in middleware

\* ------------------------------------------------------------ receivers
\* Signal.connect: a receiver already connected for that sender is not
\* connected again.  `regs` is the signal's list of senders for one receiver.
connect(regs, sender) ==
    IF \E i \in 1..Len(regs) : regs[i] = sender THEN regs ELSE Append(regs, sender)

RECURSIVE ConnectAll(_, _)
ConnectAll(regs, senders) ==
    IF senders = << >> THEN regs
    ELSE ConnectAll(connect(regs, Head(senders)), Tail(senders))

\* How many times log_image_upload runs for one post_save of `sender`, and
\* whether cleanup_image_logs_on_delete runs for a pre_delete of it.
post_save_receivers == ConnectAll(<< >>, post_save_connects)
pre_delete_receivers == ConnectAll(<< >>, pre_delete_connects)
ImageUploadReceivers(sender) ==
    Len(SelectSeq(post_save_receivers, LAMBDA s : s = sender))
NoCleanupReceiver(sender) == FALSE
HasCleanupReceiver(sender) ==
    Len(SelectSeq(pre_delete_receivers, LAMBDA s : s = sender)) > 0
\* Whether log_model_action / log_model_delete run for `sender` (connected
\* once per tracked model, by dispatch_uid, when the module is imported).
HasAuditReceiver(loaded, sender) == loaded /\ sender \in TRACKED_MODELS

\* A database as the receivers of one write see and change it.
\* `failed` names the step that failed during the write, if one did, and
\* `raised` says whether the failure left the receiver as an exception.
Db(il, nil, al) ==
    [ imageLogs |-> il, nextImageLogId |-> nil, auditLogs |-> al,
      failed |-> "none", raised |-> FALSE ]
Raise(db, fault) == [ db EXCEPT !.failed = fault, !.raised = TRUE ]
Swallow(db, fault) == [ db EXCEPT !.failed = fault ]

\* str(instance), the display text of a row.
Str(instance) == instance.kind \o " " \o ToString(instance.id)

\* AuditLog.objects.create(...)
AuditLog_create_twice(db, row, fault) ==
    IF fault = "audit" THEN Raise(db, fault)
    ELSE [ db EXCEPT !.auditLogs = Append(Append(@, row), row) ]
AuditLog_create(db, row, fault) ==
    IF fault = "audit" THEN Raise(db, fault)
    ELSE [ db EXCEPT !.auditLogs = Append(@, row) ]

\* log_model_action(sender, instance, created), run on a thread whose
\* `request` attribute is attr.
log_model_action(db, attr, sender, instance, created, fault) ==
    LET user == get_request_user(attr) IN
    IF user = None THEN db
    ELSE AuditLog_create(db,
            [ user |-> user,
              action |-> IF created THEN "CREATE" ELSE "UPDATE",
              model_name |-> sender,
              object_id |-> instance.id,
              object_repr |-> Str(instance),
              ip_address |-> get_request_ip(attr),
              user_agent |-> get_request_user_agent(attr) ],
            fault)

\* log_model_delete(sender, instance)
log_model_delete(db, attr, sender, instance, fault) ==
    LET user == get_request_user(attr) IN
    IF user = None THEN db
    ELSE AuditLog_create(db,
            [ user |-> user,
              action |-> "DELETE",
              model_name |-> sender,
              object_id |-> instance.id,
              object_repr |-> Str(instance),
              ip_address |-> get_request_ip(attr),
              user_agent |-> get_request_user_agent(attr) ],
            fault)

\* log_login_failed(sender, credentials, request): the request is the one the
\* signal carries, not the thread's attribute.
log_login_failed(db, username, rid, fault) ==
    AuditLog_create(db,
        [ user |-> None,
          action |-> "PERMISSION_DENIED",
          model_name |-> "User",
          object_id |-> NullId,
          object_repr |-> "Failed login attempt: " \o
                            (IF username = None THEN "unknown" ELSE username),
          ip_address |-> get_client_ip(Request[rid]),
          user_agent |-> get_user_agent(Request[rid]) ],
        fault)

\* The file field log_image_upload looks at: instance.image if the model has
\* an attribute of that name, else instance.profile_picture if it has that,
\* else nothing.  "file" is a field holding a file, "empty" one holding none.
image_field(instance) ==
    IF ImageFieldName(instance.kind) = "image"
    THEN (IF instance.file THEN "file" ELSE "empty")
    ELSE IF ImageFieldName(instance.kind) = "profile_picture"
    THEN (IF instance.file THEN "file" ELSE "empty")
    ELSE None

\* log_image_upload(sender, instance, created)
log_image_upload_every_save(db, sender, instance, created, fault) ==
    IF image_field(instance) = "file" /\ fault = "none"
    THEN [ db EXCEPT
             !.imageLogs = @ \cup
                 { [ id |-> db.nextImageLogId, content_type |-> sender,
                     object_id |-> instance.id,
                     section_name |-> IF sender \in DOMAIN section_mapping
                                      THEN section_mapping[sender] ELSE sender ] },
             !.nextImageLogId = @ + 1 ]
    ELSE db
log_image_upload(db, sender, instance, created, fault) ==
    IF ~created THEN db
    ELSE
      LET section_name == IF sender \in DOMAIN section_mapping
                          THEN section_mapping[sender] ELSE sender
      IN
      IF image_field(instance) = "file"
      THEN
        \* ContentType.objects.get_for_model(sender) stands before the try
        IF fault = "content_type" THEN Raise(db, fault)
        \* inside the try: image_field.size and ImageLog.objects.create
        ELSE IF fault \in { "file_size", "image_log" } THEN Swallow(db, fault)
        ELSE [ db EXCEPT
                 !.imageLogs = @ \cup
                     { [ id |-> db.nextImageLogId, content_type |-> sender,
                         object_id |-> instance.id,
                         section_name |-> section_name ] },
                 !.nextImageLogId = @ + 1 ]
      ELSE db

\* cleanup_image_logs_on_delete(sender, instance)
cleanup_by_object_id(db, sender, instance, fault) ==
    [ db EXCEPT !.imageLogs = { l \in @ : l.object_id # instance.id } ]
cleanup_image_logs_on_delete(db, sender, instance, fault) ==
    IF fault = "content_type" THEN Raise(db, fault)
    ELSE [ db EXCEPT !.imageLogs =
             { l \in @ : ~(l.content_type = sender /\ l.object_id = instance.id) } ]

\* --------------------------------------------------------- signal dispatch
\* Signal.send for post_save: log_image_upload (connected when the app is
\* ready) runs before log_model_action (connected when the middleware is
\* loaded); a receiver that raises ends the dispatch.
RECURSIVE RunImageUpload(_, _, _, _, _, _)
RunImageUpload(n, db, sender, instance, created, fault) ==
    IF n = 0 \/ db.raised THEN db
    ELSE RunImageUpload(n - 1,
             log_image_upload(db, sender, instance, created, fault),
             sender, instance, created, fault)

send_post_save(db, attr, loaded, sender, instance, created, fault) ==
    LET db1 == RunImageUpload(ImageUploadReceivers(sender), db, sender,
                              instance, created, fault)
    IN IF db1.raised THEN db1
       ELSE IF HasAuditReceiver(loaded, sender)
       THEN log_model_action(db1, attr, sender, instance, created, fault)
       ELSE db1

\* The rows of S in primary-key order.
RECURSIVE SortById(_)
SortById(S) ==
    IF S = {} THEN << >>
    ELSE LET m == CHOOSE x \in S : \A y \in S : x.id <= y.id
         IN << m >> \o SortById(S \ { m })

\* Collector.collect: the row and the rows that reference it through an
\* on_delete=CASCADE key, dependents first.
Collected(rows, e) ==
    SortById({ c \in rows : CascadeParent(c.kind) = e.kind /\ c.parent = e.id })
        \o << e >>

RECURSIVE send_pre_delete(_, _, _)
send_pre_delete(db, objs, fault) ==
    IF objs = << >> \/ db.raised THEN db
    ELSE send_pre_delete(
             IF HasCleanupReceiver(Head(objs).kind)
             THEN cleanup_image_logs_on_delete(db, Head(objs).kind, Head(objs), fault)
             ELSE db,
             Tail(objs), fault)

RECURSIVE send_post_delete(_, _, _, _, _)
send_post_delete(db, attr, loaded, objs, fault) ==
    IF objs = << >> \/ db.raised THEN db
    ELSE send_post_delete(
             IF HasAuditReceiver(loaded, Head(objs).kind)
             THEN log_model_delete(db, attr, Head(objs).kind, Head(objs), fault)
             ELSE db,
             attr, loaded, Tail(objs), fault)

\* ---------------------------------------------------------------- actions
\* Who may write rows of model k: anyone through a ModelViewSet, a logged-in
\* user through the admin for the rest; the scheduler's job upserts
\* ExchangeRate rows.
CanWrite(t, k) ==
    IF t = SchedulerThread THEN k = "ExchangeRate"
    ELSE /\ running[t] # None
         /\ (k \in ApiWritable \/ Request[running[t]].is_authenticated)

\* ExchangeRateAdmin.has_delete_permission is False and update_or_create
\* never deletes.
CanDelete(t, k) == t \in Workers /\ CanWrite(t, k) /\ k # "ExchangeRate"

By(t) == IF t \in Workers THEN running[t] ELSE None

CurrentDb == Db(imageLogs, nextImageLogId, auditLogs)

Commit(db) ==
    /\ imageLogs' = db.imageLogs
    /\ nextImageLogId' = db.nextImageLogId
    /\ auditLogs' = db.auditLogs

\* A request enters the middleware chain on worker t; a logged-in request
\* belongs to a user that exists.
BeginRequest(t, r) ==
    /\ running[t] = None
    /\ Request[r].is_authenticated => Request[r].user \in users
    /\ running' = [ running EXCEPT ![t] = r ]
    /\ thread_request' =
         IF AuditLoggingMiddleware \in middleware
         THEN process_request(thread_request, t, r)
         ELSE thread_request
    /\ UNCHANGED << middleware, entities, nextId, imageLogs, nextImageLogId,
                    auditLogs, ops, last >>
    /\ UNCHANGED << deleted_count, rateVars >>
    /\ UNCHANGED << schedVars, adminVars >>

\* The response leaves, or the exception a view raised is turned into one:
\* AuditLoggingMiddleware has neither process_response nor process_exception.
EndRequest(t) ==
    /\ running[t] # None
    /\ pending[t] = NoCreate
    /\ running' = [ running EXCEPT ![t] = None ]
    /\ UNCHANGED << middleware, thread_request, entities, nextId, imageLogs,
                    nextImageLogId, auditLogs, ops, last >>
    /\ UNCHANGED << deleted_count, rateVars >>
    /\ UNCHANGED << schedVars, adminVars >>

\* Model.save() of a new row.
Create(t, k, file, parent, fault) ==
    /\ CanWrite(t, k)
    /\ nextId[k] <= MaxId
    /\ IF CascadeParent(k) = None THEN parent = NullId
       ELSE \/ k = "ServiceTime" /\ parent = NullId
            \/ \E p \in entities : p.kind = CascadeParent(k) /\ p.id = parent
    /\ ops' = ops + 1
    /\ IF k \in Singletons /\ \E e \in entities : e.kind = k
       THEN \* ValueError before anything is written
            /\ last' = [ op |-> "create", kind |-> k, id |-> NullId,
                         ctx |-> thread_request[t], by |-> By(t),
                         fault |-> "none", outcome |-> "rejected" ]
            /\ UNCHANGED << entities, nextId, imageLogs, nextImageLogId, auditLogs >>
       ELSE LET instance == [ kind |-> k, id |-> nextId[k], file |-> file,
                              parent |-> parent ]
                db == send_post_save(CurrentDb, thread_request[t],
                                     AuditModuleLoaded, k, instance, TRUE, fault)
            IN /\ entities' = entities \cup { instance }
               /\ nextId' = [ nextId EXCEPT ![k] = @ + 1 ]
               /\ Commit(db)
               /\ last' = [ op |-> "create", kind |-> k, id |-> instance.id,
                            ctx |-> thread_request[t], by |-> By(t),
                            fault |-> db.failed,
                            outcome |-> IF db.raised THEN "raised" ELSE "ok" ]
    /\ UNCHANGED << middleware, thread_request, running >>
    /\ UNCHANGED << deleted_count, rateVars >>
    /\ UNCHANGED << schedVars, adminVars >>

\* Model.save() of a row that exists; `file` is what its file field holds
\* afterwards.
Update(t, e, file, fault) ==
    /\ e \in entities
    /\ CanWrite(t, e.kind)
    /\ ops' = ops + 1
    /\ LET instance == [ e EXCEPT !.file = file ]
           db == send_post_save(CurrentDb, thread_request[t], AuditModuleLoaded,
                                e.kind, instance, FALSE, fault)
       IN /\ entities' = (entities \ { e }) \cup { instance }
          /\ Commit(db)
          /\ last' = [ op |-> "update", kind |-> e.kind, id |-> e.id,
                       ctx |-> thread_request[t], by |-> By(t),
                       fault |-> db.failed,
                       outcome |-> IF db.raised THEN "raised" ELSE "ok" ]
    /\ UNCHANGED << middleware, thread_request, running, nextId >>
    /\ UNCHANGED << deleted_count, rateVars >>
    /\ UNCHANGED << schedVars, adminVars >>

\* Model.delete(): pre_delete for every collected row, the DELETEs, then
\* post_delete for every row, all inside one transaction.atomic block, so an
\* exception from a receiver undoes the whole delete.
Delete(t, e, fault) ==
    /\ e \in entities
    /\ CanDelete(t, e.kind)
    /\ ops' = ops + 1
    /\ LET objs == Collected(entities, e)
           db1 == send_pre_delete(CurrentDb, objs, fault)
           db == send_post_delete(db1, thread_request[t], AuditModuleLoaded,
                                  objs, fault)
       IN /\ IF db.raised
             THEN UNCHANGED << entities, imageLogs, nextImageLogId, auditLogs >>
             ELSE /\ entities' = entities \ { objs[i] : i \in 1..Len(objs) }
                  /\ Commit(db)
          /\ last' = [ op |-> "delete", kind |-> e.kind, id |-> e.id,
                       ctx |-> thread_request[t], by |-> By(t),
                       fault |-> db.failed,
                       outcome |-> IF db.raised THEN "raised" ELSE "ok" ]
    /\ UNCHANGED << middleware, thread_request, running, nextId >>
    /\ UNCHANGED << deleted_count, rateVars >>
    /\ UNCHANGED << schedVars, adminVars >>

\* authenticate() finds no user for the credentials of an anonymous client
\* and sends user_login_failed with the request.
LoginFailed(t, username, fault) ==
    /\ t \in Workers
    /\ running[t] # None
    /\ ~Request[running[t]].is_authenticated
    /\ ops' = ops + 1
    /\ LET db == IF AuditModuleLoaded
                 THEN log_login_failed(CurrentDb, username, running[t], fault)
                 ELSE CurrentDb
       IN /\ Commit(db)
          /\ last' = [ op |-> "login_failed", kind |-> "User", id |-> NullId,
                       ctx |-> thread_request[t], by |-> By(t),
                       fault |-> db.failed,
                       outcome |-> IF db.raised THEN "raised" ELSE "ok" ]
    /\ UNCHANGED << middleware, thread_request, running, entities, nextId >>
    /\ UNCHANGED << deleted_count, rateVars >>
    /\ UNCHANGED << schedVars, adminVars >>

\* Requests drawn from R come and go on the workers T.
Begins(T, R) == \E t \in T, r \in R : BeginRequest(t, r)
Ends(T) == \E t \in T : EndRequest(t)

\* The threads T write rows of the models K, with the faults F, while fewer
\* than N writes have been made.
Creates(T, K, F, N) ==
    /\ ops < N
    /\ \E t \in T, k \in K, file \in BOOLEAN, parent \in 0..MaxId, fault \in F :
          Create(t, k, file, parent, fault)
Updates(T, F, N) ==
    /\ ops < N
    /\ \E t \in T, e \in entities, file \in BOOLEAN, fault \in F :
          Update(t, e, file, fault)
Deletes(T, F, N) ==
    /\ ops < N
    /\ \E t \in T, e \in entities, fault \in F : Delete(t, e, fault)

\* Anonymous clients on the workers T fail to log in.
Logins(T, F, N) ==
    /\ ops < N
    /\ \E t \in T, username \in { "alice", None }, fault \in F :
          LoginFailed(t, username, fault)

\* Two workers and the scheduler's thread; the rows written are those of an
\* image-bearing model, of a singleton and of the model the scheduler's job
\* upserts; the AuditLog insert may fail.
Next ==
    \/ Begins(Workers, RequestIds)
    \/ Ends(Workers)
    \/ Creates(Threads, { "HomeBanner", "ChurchInfo", "ExchangeRate" },
               { "none", "audit" }, MaxOps)
    \/ Updates(Threads, { "none", "audit" }, MaxOps)
    \/ Deletes(Workers, { "none", "audit" }, MaxOps)
    \/ Logins(Workers, { "none", "audit" }, MaxOps)

Spec == Init /\ [][Next]_vars

\* The process as shipped, one worker serving a logged-in user who writes
\* rows of every model that carries an image field and of GivingInfo, whose
\* deletion cascades to GivingImage; every step of the image tracker may fail.
InitShipped == Init /\ middleware = MIDDLEWARE

NextImages ==
    \/ Begins({ "w1" }, { "req_alice" })
    \/ Ends({ "w1" })
    \/ Creates({ "w1" },
               { "HomeBanner", "HeadPastor", "Leader", "PhotoGallery", "Sermon",
                 "Event", "GivingImage", "Branch", "Merchandise", "Book",
                 "GivingInfo" },
               Faults, MaxImageOps)
    \/ Updates({ "w1" }, Faults, MaxImageOps)
    \/ Deletes({ "w1" }, Faults, MaxImageOps)

SpecImages == InitShipped /\ [][NextImages]_vars

\* ------------------------------------------------- cleanup_image_logs
\* models_to_check of cleanup_image_logs.py, in list order.
models_to_check ==
    << "Event", "HomeBanner", "HeadPastor", "Leader", "PhotoGallery",
       "Sermon", "Branch", "Merchandise", "GivingImage" >>

\* model.objects.filter(id=object_id).exists()
exists_any_model(rows, model, object_id) ==
    \E e \in rows : e.id = object_id
exists(rows, model, object_id) ==
    \E e \in rows : e.kind = model /\ e.id = object_id

\* The inner loop: every ImageLog row of `todo` whose object is gone is
\* deleted and counted.  `acc` is the ImageLog table and the count so far.
RECURSIVE sweep_logs(_, _, _, _)
sweep_logs(acc, rows, model, todo) ==
    IF todo = << >> THEN acc
    ELSE LET log == Head(todo) IN
         sweep_logs(
             IF ~exists(rows, model, log.object_id)
             THEN [ imageLogs |-> acc.imageLogs \ { log },
                    deleted_count |-> acc.deleted_count + 1 ]
             ELSE acc,
             rows, model, Tail(todo))

\* The outer loop over the models; ImageLog.objects.filter(content_type=...)
\* is read when the inner loop starts.
RECURSIVE sweep_models(_, _, _)
sweep_models(acc, rows, models) ==
    IF models = << >> THEN acc
    ELSE sweep_models(
             sweep_logs(acc, rows, Head(models),
                 SortById({ l \in acc.imageLogs : l.content_type = Head(models) })),
             rows, Tail(models))

\* Command.handle of cleanup_image_logs.py
cleanup_image_logs_count_only(logs, rows, models) ==
    [ imageLogs |-> logs,
      deleted_count |->
        sweep_models([ imageLogs |-> logs, deleted_count |-> 0 ], rows,
                     models).deleted_count ]
cleanup_image_logs(logs, rows, models) ==
    sweep_models([ imageLogs |-> logs, deleted_count |-> 0 ], rows, models)

\* An operator runs `manage.py cleanup_image_logs`, outside any request.
Reconcile ==
    /\ LET done == cleanup_image_logs(imageLogs, entities, models_to_check)
       IN /\ imageLogs' = done.imageLogs
          /\ deleted_count' = done.deleted_count
    /\ ops' = ops + 1
    /\ last' = [ op |-> "reconcile", kind |-> None, id |-> NullId,
                 ctx |-> NoAttr, by |-> None, fault |-> "none",
                 outcome |-> "ok" ]
    /\ UNCHANGED << middleware, thread_request, running, entities, nextId,
                    nextImageLogId, auditLogs, rateVars >>
    /\ UNCHANGED << schedVars, adminVars >>

\* A row leaves its table without Model.delete() running: removed in the
\* database itself, so that no pre_delete is sent and the row's ImageLog rows
\* stay behind.  These are the rows the command is written to find.
RawDelete(e) ==
    /\ e \in entities
    /\ entities' = entities \ { e }
    /\ ops' = ops + 1
    /\ last' = [ op |-> "raw_delete", kind |-> e.kind, id |-> e.id,
                 ctx |-> NoAttr, by |-> None, fault |-> "none",
                 outcome |-> "ok" ]
    /\ UNCHANGED << middleware, thread_request, running, nextId, imageLogs,
                    nextImageLogId, auditLogs, deleted_count, rateVars >>
    /\ UNCHANGED << schedVars, adminVars >>

Reconciles(N) == ops < N /\ Reconcile
RawDeletes(N) == ops < N /\ \E e \in entities : RawDelete(e)

\* The process as shipped: a logged-in user creates and deletes rows of three
\* image-bearing models, rows are removed behind Django's back, and the
\* operator runs the sweep.
NextReconcile ==
    \/ Begins({ "w1" }, { "req_alice" })
    \/ Creates({ "w1" }, { "HomeBanner", "Leader", "Event" }, { "none" },
               MaxSweepOps)
    \/ Deletes({ "w1" }, { "none" }, MaxSweepOps)
    \/ RawDeletes(MaxSweepOps)
    \/ Reconciles(MaxSweepOps)

SpecReconcile == InitShipped /\ [][NextReconcile]_vars

\* ------------------------------------------------- update_exchange_rates
\* Money is counted in cents (DecimalField, decimal_places=2) and a rate in
\* millionths (DecimalField, decimal_places=6).
Million == 1000000

\* The `rates` mapping of the feed: currency codes mapped to JSON values, in
\* the order the mapping lists them.  12.5, 0.5 and 0.123456 are numbers; a
\* string such as "N/A" is none.
FeedCodes == { "USD", "GHS" }
JsonValues ==
    { [ type |-> "number", value |-> 12500000 ],
      [ type |-> "number", value |-> 500000 ],
      [ type |-> "number", value |-> 123456 ],
      [ type |-> "string", value |-> 0 ] }
\* The feeds of at most n (one or two) items whose values are drawn from V.
FeedItems(V) == [ currency_code : FeedCodes, rate : V ]
Feeds(V, n) ==
    { << >> } \cup { << i >> : i \in FeedItems(V) }
      \cup { q \in FeedItems(V) \X FeedItems(V) :
                 n > 1 /\ q[1].currency_code # q[2].currency_code }

\* How requests.get(..., timeout=10), raise_for_status() and response.json()
\* end.
FetchOutcomes == { "ok", "timeout", "connection_error", "http_error", "bad_json" }

\* The try block down to `if not rates: return`: whether handle() goes on to
\* the loop, with which items, after how many GETs, and whether an exception
\* leaves handle().
fetch_rates_raising(fetch, feed) ==
    [ proceed |-> fetch = "ok" /\ feed # << >>, rates |-> feed, fetches |-> 1,
      raised |-> fetch # "ok" ]
fetch_rates(fetch, feed) ==
    IF fetch = "ok" /\ feed # << >>
    THEN [ proceed |-> TRUE, rates |-> feed, fetches |-> 1, raised |-> FALSE ]
    ELSE [ proceed |-> FALSE, rates |-> << >>, fetches |-> 1, raised |-> FALSE ]

\* currency_names.get(currency_code, f'{currency_code} Currency')
currency_name(currency_code) ==
    CASE currency_code = "USD" -> "US Dollar"
      [] currency_code = "GHS" -> "Ghana Cedi"
      [] OTHER -> currency_code \o " Currency"

\* DecimalField.to_python, run when the row is written: a JSON number becomes
\* the rate, anything else raises.  NoRate stands for a NULL rate.
NoRate == 0
to_python_lenient(value) == [ ok |-> TRUE, rate |-> value.value ]
to_python(value) ==
    IF value.type = "number" THEN [ ok |-> TRUE, rate |-> value.value ]
    ELSE [ ok |-> FALSE, rate |-> NoRate ]

\* ExchangeRate.objects.get(currency_code=...): the rows that match.
get_rows(table, currency_code) ==
    { r \in table : r.currency_code = currency_code }

\* unique=True on currency_code: an INSERT of a code that has a row fails
\* with IntegrityError.
unique_unchecked(table, currency_code) == FALSE
unique_violation(table, currency_code) == get_rows(table, currency_code) # {}

\* obj.save() of a row that exists: an UPDATE of that row.
save_only_row(table, obj, row) == { row }
save_row(table, obj, row) == (table \ { obj }) \cup { row }

\* The item a runner inside the loop is at.
Item(p) == Head(refresh[p].rates)

\* select_for_update(): the row of a code is locked by the runner that has
\* read it and not yet saved it.
LockedByOther(p, currency_code) ==
    \E q \in Runners \ { p } :
        /\ refresh[q].pc = "save"
        /\ Item(q).currency_code = currency_code

\* The `request` attribute of the thread a runner is (the operator's process
\* serves no requests).
RunnerAttr(p) == IF p \in Threads THEN thread_request[p] ELSE NoAttr

\* The loop moves on to the next item, or handle() returns.
NextItem(p) ==
    IF Len(refresh[p].rates) > 1
    THEN [ refresh EXCEPT ![p] = [ pc |-> "get", rates |-> Tail(@.rates) ] ]
    ELSE [ refresh EXCEPT ![p] = Idle ]

\* An exception inside the loop reaches `except Exception` and handle()
\* returns.
Abort(p) == [ refresh EXCEPT ![p] = Idle ]

\* The scheduler fires the job, or the operator runs the command: the feed is
\* fetched.
StartRefresh(p, fetch, feed) ==
    /\ refresh[p].pc = "idle"
    /\ p = SchedulerThread => \E i \in 1..Len(jobs) : jobs[i] = JobId
    /\ fetch # "ok" => feed = << >>
    /\ refreshes' = refreshes + 1
    /\ LET got == fetch_rates(fetch, feed) IN
       /\ refresh' = IF got.proceed
                     THEN [ refresh EXCEPT ![p] = [ pc |-> "get", rates |-> got.rates ] ]
                     ELSE refresh
       /\ refreshed' = [ by |-> p, step |-> "fetch",
                         fetch |-> IF fetch = "ok" /\ feed = << >>
                                   THEN "no_rates" ELSE fetch,
                         currency_code |-> None, rate |-> NoRate,
                         result |-> IF got.raised THEN "raised"
                                    ELSE IF got.proceed THEN "started"
                                    ELSE "abandoned",
                         fetches |-> got.fetches ]
    /\ UNCHANGED << middleware, thread_request, running, entities, nextId,
                    imageLogs, nextImageLogId, auditLogs, ops, last,
                    deleted_count, exchange_rates, now, jobs, response >>
    /\ UNCHANGED << schedVars, adminVars >>

\* update_or_create, first statement: SELECT ... FOR UPDATE of the code's row.
\* It waits while another transaction holds the row's lock.
Get(p) ==
    /\ refresh[p].pc = "get"
    /\ ~LockedByOther(p, Item(p).currency_code)
    /\ refresh' = [ refresh EXCEPT ![p].pc =
                      IF get_rows(exchange_rates, Item(p).currency_code) # {}
                      THEN "save" ELSE "insert" ]
    /\ refreshed' = [ by |-> p, step |-> "get", fetch |-> "none",
                      currency_code |-> Item(p).currency_code, rate |-> NoRate,
                      result |-> "read", fetches |-> 0 ]
    /\ UNCHANGED << middleware, thread_request, running, entities, nextId,
                    imageLogs, nextImageLogId, auditLogs, ops, last,
                    deleted_count, exchange_rates, now, jobs, refreshes,
                    response >>
    /\ UNCHANGED << schedVars, adminVars >>

\* What the receivers of post_save do for an ExchangeRate row written by p.
RatePostSave(p, row, created) ==
    send_post_save(CurrentDb, RunnerAttr(p), AuditModuleLoaded, "ExchangeRate",
                   [ kind |-> "ExchangeRate", id |-> row.id, file |-> FALSE,
                     parent |-> NullId ],
                   created, "none")

\* update_or_create when the code had no row: ExchangeRate(...).save() as an
\* INSERT.  A value that is no number raises before the statement is sent; a
\* row another transaction has inserted meanwhile makes it fail with
\* IntegrityError, after which the row is read again.
Insert(p) ==
    /\ refresh[p].pc = "insert"
    /\ LET item == Item(p)
           value == to_python(item.rate)
           row == [ id |-> nextId["ExchangeRate"],
                    currency_code |-> item.currency_code,
                    currency_name |-> currency_name(item.currency_code),
                    rate |-> value.rate, last_updated |-> now ]
       IN IF ~value.ok
          THEN /\ refresh' = Abort(p)
               /\ refreshed' = [ by |-> p, step |-> "insert", fetch |-> "none",
                                 currency_code |-> item.currency_code,
                                 rate |-> NoRate, result |-> "aborted",
                                 fetches |-> 0 ]
               /\ UNCHANGED << exchange_rates, now, nextId, imageLogs,
                               nextImageLogId, auditLogs >>
          ELSE IF unique_violation(exchange_rates, item.currency_code)
          THEN /\ refresh' = [ refresh EXCEPT ![p].pc = "get" ]
               /\ refreshed' = [ by |-> p, step |-> "insert", fetch |-> "none",
                                 currency_code |-> item.currency_code,
                                 rate |-> NoRate, result |-> "retry",
                                 fetches |-> 0 ]
               /\ UNCHANGED << exchange_rates, now, nextId, imageLogs,
                               nextImageLogId, auditLogs >>
          ELSE /\ exchange_rates' = exchange_rates \cup { row }
               /\ nextId' = [ nextId EXCEPT !["ExchangeRate"] = @ + 1 ]
               /\ now' = now + 1
               /\ Commit(RatePostSave(p, row, TRUE))
               /\ refresh' = NextItem(p)
               /\ refreshed' = [ by |-> p, step |-> "insert", fetch |-> "none",
                                 currency_code |-> item.currency_code,
                                 rate |-> value.rate, result |-> "written",
                                 fetches |-> 0 ]
    /\ UNCHANGED << middleware, thread_request, running, entities, ops, last,
                    deleted_count, jobs, refreshes, response >>
    /\ UNCHANGED << schedVars, adminVars >>

\* update_or_create when the code had a row: the defaults are set on it and
\* it is saved, which also sets last_updated (auto_now); the lock goes with
\* the transaction.
Save(p) ==
    /\ refresh[p].pc = "save"
    /\ LET item == Item(p)
           value == to_python(item.rate)
           old == get_rows(exchange_rates, item.currency_code)
           obj == CHOOSE r \in old : TRUE
           row == [ obj EXCEPT !.rate = value.rate,
                               !.currency_name = currency_name(item.currency_code),
                               !.last_updated = now ]
       IN IF ~value.ok
          THEN /\ refresh' = Abort(p)
               /\ refreshed' = [ by |-> p, step |-> "save", fetch |-> "none",
                                 currency_code |-> item.currency_code,
                                 rate |-> NoRate, result |-> "aborted",
                                 fetches |-> 0 ]
               /\ UNCHANGED << exchange_rates, now, imageLogs, nextImageLogId,
                               auditLogs >>
          ELSE /\ exchange_rates' = save_row(exchange_rates, obj, row)
               /\ now' = now + 1
               /\ Commit(RatePostSave(p, row, FALSE))
               /\ refresh' = NextItem(p)
               /\ refreshed' = [ by |-> p, step |-> "save", fetch |-> "none",
                                 currency_code |-> item.currency_code,
                                 rate |-> value.rate, result |-> "written",
                                 fetches |-> 0 ]
    /\ UNCHANGED << middleware, thread_request, running, entities, nextId, ops,
                    last, deleted_count, jobs, refreshes, response >>
    /\ UNCHANGED << schedVars, adminVars >>

\* ----------------------------------------------------------- price views
\* The Book rows the price view is asked about, with their price in cents
\* (10.00, 0.05); no other book exists.
Books == [ id \in 1..2 |-> CASE id = 1 -> 1000 [] id = 2 -> 5 ]

\* The `currency` query parameter as the client writes it.
CurrencyParams == { "USD", "usd", "GHS", "ghs", "ZZZ" }

\* str.upper()
upper(s) ==
    CASE s = "usd" -> "USD"
      [] s = "ghs" -> "GHS"
      [] OTHER -> s

\* round(float(price) * float(rate), 2), in cents.  The product is exact in
\* hundred-millionths; a product that lies half-way between two cents goes up
\* or down as its binary approximation falls (`up`).
round_down(price, rate, up) ==
    price * (rate \div Million) + (price * (rate % Million)) \div Million
round(price, rate, up) ==
    LET cents == price * (rate \div Million) + (price * (rate % Million)) \div Million
        rest == (price * (rate % Million)) % Million
    IN IF 2 * rest > Million THEN cents + 1
       ELSE IF 2 * rest < Million THEN cents
       ELSE IF up THEN cents + 1 ELSE cents

\* list(ExchangeRate.objects.values_list('currency_code', flat=True)), in
\* Meta.ordering.
values_list_none(codes) == << >>
RECURSIVE values_list(_)
values_list(codes) ==
    IF codes = {} THEN << >>
    ELSE LET c == CHOOSE x \in codes :
                    \A y \in codes : x = y \/ (x = "GHS" /\ y = "USD")
         IN << c >> \o values_list(codes \ { c })

\* get_book_price(request, book_id) against the ExchangeRate rows `table`;
\* `queries` counts the ExchangeRate queries it makes.
get_book_price_by_rate(table, book_id, currency_param, up) ==
    LET currency == upper(currency_param) IN
    IF book_id \notin DOMAIN Books
    THEN [ NoResponse EXCEPT !.status = 404 ]
    ELSE IF get_rows(table, currency) # {}
    THEN LET exchange_rate == CHOOSE r \in get_rows(table, currency) : TRUE IN
         [ NoResponse EXCEPT
             !.status = 200, !.success = TRUE,
             !.original_price = Books[book_id],
             !.converted_price = round(Books[book_id], exchange_rate.rate, up),
             !.currency_code = currency,
             !.exchange_rate = exchange_rate.rate,
             !.queries = 1 ]
    ELSE [ NoResponse EXCEPT
             !.status = 404,
             !.currency_code = currency,
             !.available_currencies =
                 values_list({ r.currency_code : r \in table }),
             !.queries = 2 ]
get_book_price(table, book_id, currency_param, up) ==
    LET currency == upper(currency_param) IN
    IF book_id \notin DOMAIN Books
    THEN [ NoResponse EXCEPT !.status = 404 ]
    ELSE IF currency = "USD"
    THEN [ NoResponse EXCEPT
             !.status = 200, !.success = TRUE,
             !.original_price = Books[book_id],
             !.converted_price = Books[book_id],
             !.currency_code = "USD" ]
    ELSE IF get_rows(table, currency) # {}
    THEN LET exchange_rate == CHOOSE r \in get_rows(table, currency) : TRUE IN
         [ NoResponse EXCEPT
             !.status = 200, !.success = TRUE,
             !.original_price = Books[book_id],
             !.converted_price = round(Books[book_id], exchange_rate.rate, up),
             !.currency_code = currency,
             !.exchange_rate = exchange_rate.rate,
             !.queries = 1 ]
    ELSE [ NoResponse EXCEPT
             !.status = 404,
             !.currency_code = currency,
             !.available_currencies =
                 values_list({ r.currency_code : r \in table }),
             !.queries = 2 ]

\* A client asks for the price of a book in a currency.  The view reads the
\* table as it stands and takes no lock.
Convert(book_id, currency_param, up) ==
    /\ response' =
         [ get_book_price(exchange_rates, book_id, currency_param, up)
             EXCEPT !.book_id = book_id, !.param = currency_param, !.at = now ]
    /\ UNCHANGED << middleware, thread_request, running, entities, nextId,
                    imageLogs, nextImageLogId, auditLogs, ops, last,
                    deleted_count, exchange_rates, now, jobs, refresh,
                    refreshes, refreshed >>
    /\ UNCHANGED << schedVars, adminVars >>

\* The runners P start runs (fewer than N so far), whose fetch ends as one of
\* O and brings one of the feeds F, and take their steps.
StartsRefresh(P, O, F, N) ==
    /\ refreshes < N
    /\ \E p \in P, fetch \in O, feed \in F : StartRefresh(p, fetch, feed)
Gets(P) == \E p \in P : Get(p)
Inserts(P) == \E p \in P : Insert(p)
Saves(P) == \E p \in P : Save(p)
\* Clients ask for the prices of the books B in the currencies C.
Converts(B, C) ==
    \E book_id \in B, currency_param \in C, up \in BOOLEAN :
        Convert(book_id, currency_param, up)

\* The scheduler's job and an operator refresh the rates, possibly at the
\* same time, from feeds that hold 12.5, 0.5 or a string, while clients ask
\* for the price of one book in a currency of the feed.
NextRates ==
    \/ StartsRefresh(Runners, FetchOutcomes,
                     Feeds({ v \in JsonValues : v.value # 123456 }, 2),
                     MaxRefreshes)
    \/ Gets(Runners)
    \/ Inserts(Runners)
    \/ Saves(Runners)
    \/ Converts({ 1 }, { "GHS" })

SpecRates == InitShipped /\ [][NextRates]_vars

\* A runner inside the loop takes its next step when it can: its thread is
\* scheduled, and a wait for a row lock ends when the holder commits.
RunnerStep(p) == Get(p) \/ Insert(p) \/ Save(p)
SpecRatesLive ==
    SpecRates /\ \A p \in Runners : WF_vars(RunnerStep(p))

\* The scheduler's job alone refreshes the rates, one code per run, from
\* feeds of numbers, and clients ask for the price of every book, and of one
\* that does not exist, in every currency.
NextConvert ==
    \/ StartsRefresh({ SchedulerThread }, { "ok" },
                     Feeds({ v \in JsonValues : v.type = "number" }, 1),
                     MaxRefreshes)
    \/ Gets({ SchedulerThread })
    \/ Inserts({ SchedulerThread })
    \/ Saves({ SchedulerThread })
    \/ Converts(1..3, CurrencyParams)

SpecConvert == InitShipped /\ [][NextConvert]_vars

\* ------------------------------------------------------- startup, scheduler
\* misfire_grace_time of the job, in seconds, as APScheduler reads it.
misfire_grace_time == 15

\* How late, in seconds, a scheduler may wake up for a run time that is due:
\* on time, at and just past the grace time, 5, 15 and 20 minutes late.
Delays == { 0, 15, 16, 300, 900, 1200 }

\* What can go wrong in setup_scheduler: apscheduler cannot be imported,
\* add_job raises, scheduler.start() raises.
SetupFaults == { "none", "import_error", "add_job", "start" }

\* scheduler.add_job(..., id=id, replace_existing=True) on the job store of
\* one scheduler: a job of that id is replaced, else the job is added.
add_job(store, id) ==
    IF \E i \in 1..Len(store) : store[i] = id THEN store ELSE Append(store, id)

\* setup_scheduler(): a new BackgroundScheduler (whose job store is empty)
\* gets the job and is started; ImportError is logged as a warning and any
\* other exception as an error.  `timers` are the jobs of the scheduler if
\* it runs.
setup_scheduler_unguarded(fault) ==
    [ timers |-> IF fault = "none" THEN add_job(<< >>, JobId) ELSE << >>,
      log |-> "none", raised |-> fault # "none" ]
setup_scheduler(fault) ==
    CASE fault = "import_error" ->
           [ timers |-> << >>, log |-> "warning", raised |-> FALSE ]
      [] fault \in { "add_job", "start" } ->
           [ timers |-> << >>, log |-> "error", raised |-> FALSE ]
      [] OTHER ->
           [ timers |-> add_job(<< >>, JobId), log |-> "none", raised |-> FALSE ]

\* The day of the first run time of a job added now: the midnight the
\* running schedulers are waiting for (day 1 when there is none).
FirstRun ==
    IF next_run = << >> THEN 1
    ELSE CHOOSE d \in { next_run[i] : i \in 1..Len(next_run) } :
             \A i \in 1..Len(next_run) : next_run[i] <= d

\* The part of setup_scheduler's outcome that lands in the process: the
\* timers of the new scheduler join those of the schedulers already running.
Install(done) ==
    /\ jobs' = jobs \o done.timers
    /\ next_run' = next_run \o [ i \in 1..Len(done.timers) |-> FirstRun ]

\* ApiConfig.ready(): import api.signals, then setup_scheduler().
Ready(fault) ==
    /\ ~startup.ready
    /\ LET done == setup_scheduler(fault) IN
       /\ Install(done)
       /\ startup' = [ ready |-> ~done.raised, signals |-> TRUE,
                       raised |-> done.raised, log |-> done.log,
                       setups |-> startup.setups + 1 ]
    /\ UNCHANGED << middleware, thread_request, running, entities, nextId,
                    imageLogs, nextImageLogId, auditLogs, ops, last,
                    deleted_count, exchange_rates, now, refresh, refreshes,
                    refreshed, response, wakeup >>
    /\ UNCHANGED adminVars

\* setup_scheduler() runs again in the process that is up.
SetupAgain(fault) ==
    /\ startup.ready
    /\ LET done == setup_scheduler(fault) IN
       /\ Install(done)
       /\ startup' = [ startup EXCEPT !.log = done.log,
                                      !.raised = done.raised,
                                      !.setups = @ + 1 ]
    /\ UNCHANGED << middleware, thread_request, running, entities, nextId,
                    imageLogs, nextImageLogId, auditLogs, ops, last,
                    deleted_count, exchange_rates, now, refresh, refreshes,
                    refreshed, response, wakeup >>
    /\ UNCHANGED adminVars

\* The scheduler that holds timer i wakes up `delay` seconds after the run
\* time of day next_run[i] (CronTrigger(hour=0, minute=0)): the run is
\* submitted unless it is later than the grace time, and the next run time is
\* the following midnight.
process_job(delay) == IF delay > misfire_grace_time THEN "missed" ELSE "run"

Wakeup(i, delay) ==
    /\ i \in 1..Len(jobs)
    /\ wakeup' = [ timer |-> i, day |-> next_run[i], delay |-> delay,
                   outcome |-> process_job(delay) ]
    /\ next_run' = [ next_run EXCEPT ![i] = @ + 1 ]
    /\ UNCHANGED << middleware, thread_request, running, entities, nextId,
                    imageLogs, nextImageLogId, auditLogs, ops, last,
                    deleted_count, exchange_rates, now, jobs, refresh,
                    refreshes, refreshed, response, startup >>
    /\ UNCHANGED adminVars

Readies == \E fault \in SetupFaults : Ready(fault)
SetupsAgain(N) ==
    /\ startup.setups < N
    /\ \E fault \in SetupFaults : SetupAgain(fault)
Wakeups(N) ==
    \E i \in 1..Len(jobs), delay \in Delays :
        next_run[i] <= N /\ Wakeup(i, delay)

\* The process before ApiConfig.ready() has run.
InitBoot ==
    /\ middleware = MIDDLEWARE
    /\ thread_request = [ t \in Threads |-> NoAttr ]
    /\ running = [ t \in Workers |-> None ]
    /\ entities = {}
    /\ nextId = [ k \in Kinds |-> 1 ]
    /\ imageLogs = {}
    /\ nextImageLogId = 1
    /\ auditLogs = << >>
    /\ ops = 0
    /\ last = NoOp
    /\ deleted_count = 0
    /\ exchange_rates = {}
    /\ now = 1
    /\ jobs = << >>
    /\ refresh = [ p \in Runners |-> Idle ]
    /\ refreshes = 0
    /\ refreshed = NoRefresh
    /\ response = NoResponse
    /\ startup = NotStarted
    /\ next_run = << >>
    /\ wakeup = NoWakeup
    /\ users = Users
    /\ pending = [ t \in Workers |-> NoCreate ]

\* The application starts, setup_scheduler() may run again, and the
\* schedulers process the midnights of the first days.
NextScheduler ==
    \/ Readies
    \/ SetupsAgain(MaxSetups)
    \/ Wakeups(MaxDays)

SpecScheduler == InitBoot /\ [][NextScheduler]_vars

\* ------------------------------------------------- audit log in the admin
\* What a staff user can ask of AuditLogAdmin for a row of AuditLog.
AdminVerbs == { "add", "change", "delete" }

\* AuditLogAdmin: has_add_permission and has_delete_permission return False;
\* the change form lists every field in readonly_fields, so saving it
\* writes the row back as it was.
AuditLogAdmin(verb, logs, i) ==
    CASE verb = "add" -> [ logs |-> logs, outcome |-> "denied" ]
      [] verb = "delete" -> [ logs |-> logs, outcome |-> "denied" ]
      [] OTHER -> [ logs |-> logs, outcome |-> "ok" ]

\* A logged-in user works on row i of AuditLog in the admin.
AdminAuditLog(t, verb, i) ==
    /\ t \in Workers
    /\ running[t] # None
    /\ Request[running[t]].is_authenticated
    /\ i \in 1..Len(auditLogs)
    /\ ops' = ops + 1
    /\ LET done == AuditLogAdmin(verb, auditLogs, i) IN
       /\ auditLogs' = done.logs
       /\ last' = [ op |-> "admin_" \o verb, kind |-> "AuditLog", id |-> i,
                    ctx |-> thread_request[t], by |-> By(t),
                    fault |-> "none", outcome |-> done.outcome ]
    /\ UNCHANGED << middleware, thread_request, running, entities, nextId,
                    imageLogs, nextImageLogId, deleted_count, rateVars,
                    schedVars, adminVars >>

\* AuditLog.user is a ForeignKey with on_delete=SET_NULL: the DELETE of a
\* user sets the column to NULL in every row that points at the user.
SET_NULL(logs, username) ==
    [ i \in 1..Len(logs) |->
        IF logs[i].user = username THEN [ logs[i] EXCEPT !.user = None ]
        ELSE logs[i] ]

\* A logged-in user deletes the user `username`, who has no request in
\* flight, through UserAdmin.  auth.User is not among TRACKED_MODELS and has
\* no receiver of signals.py.
DeleteUser(t, username) ==
    /\ t \in Workers
    /\ running[t] # None
    /\ Request[running[t]].is_authenticated
    /\ username \in users
    /\ \A w \in Workers : running[w] # None => Request[running[w]].user # username
    /\ ops' = ops + 1
    /\ users' = users \ { username }
    /\ auditLogs' = SET_NULL(auditLogs, username)
    /\ last' = [ op |-> "delete_user", kind |-> "User", id |-> NullId,
                 ctx |-> thread_request[t], by |-> By(t),
                 fault |-> "none", outcome |-> "ok" ]
    /\ UNCHANGED << middleware, thread_request, running, entities, nextId,
                    imageLogs, nextImageLogId, deleted_count, rateVars,
                    schedVars, pending >>

AdminAuditLogs(T, N) ==
    /\ ops < N
    /\ \E t \in T, verb \in AdminVerbs, i \in 1..Len(auditLogs) :
          AdminAuditLog(t, verb, i)
DeleteUsers(T, N) ==
    /\ ops < N
    /\ \E t \in T, username \in users : DeleteUser(t, username)

\* How many writes, logins and admin actions the audit-log runs make.
MaxAuditOps == 3

\* Two workers serve the two users and an anonymous client; banners are
\* written and deleted, logins fail, and the staff work on AuditLog rows and
\* delete users in the admin.
NextAudit ==
    \/ Begins(Workers, RequestIds)
    \/ Ends(Workers)
    \/ Creates(Workers, { "HomeBanner" }, { "none" }, MaxAuditOps)
    \/ Deletes(Workers, { "none" }, MaxAuditOps)
    \/ Logins(Workers, { "none" }, MaxAuditOps)
    \/ AdminAuditLogs(Workers, MaxAuditOps)
    \/ DeleteUsers(Workers, MaxAuditOps)

\* The process with the audit middleware mounted, as it is written to be.
InitMounted == Init /\ AuditLoggingMiddleware \in middleware

SpecAudit == InitMounted /\ [][NextAudit]_vars


\* ------------------------------------------------ singleton save(), by step
\* ChurchInfo / HeadPastor / GivingInfo .objects.exists()
objects_exists(rows, k) == \E e \in rows : e.kind = k

\* save() of a new row of the singleton model k, up to the end of its check
\*     if not self.pk and X.objects.exists(): raise ValueError(...)
\* The query and the INSERT of super().save() are two statements, with no
\* lock and no constraint of the table between them.
BeginSave(t, k, file) ==
    /\ t \in Workers
    /\ k \in Singletons
    /\ CanWrite(t, k)
    /\ pending[t] = NoCreate
    /\ IF objects_exists(entities, k)
       THEN /\ ops' = ops + 1
            /\ last' = [ op |-> "create", kind |-> k, id |-> NullId,
                         ctx |-> thread_request[t], by |-> By(t),
                         fault |-> "none", outcome |-> "rejected" ]
            /\ UNCHANGED pending
       ELSE /\ pending' = [ pending EXCEPT ![t] = [ kind |-> k, file |-> file ] ]
            /\ UNCHANGED << ops, last >>
    /\ UNCHANGED << middleware, thread_request, running, entities, nextId,
                    imageLogs, nextImageLogId, auditLogs, deleted_count,
                    rateVars, schedVars, users >>

\* super().save(): the INSERT and post_save.
FinishSave(t, fault) ==
    /\ t \in Workers
    /\ pending[t] # NoCreate
    /\ nextId[pending[t].kind] <= MaxId
    /\ LET k == pending[t].kind
           instance == [ kind |-> k, id |-> nextId[k], file |-> pending[t].file,
                         parent |-> NullId ]
           db == send_post_save(CurrentDb, thread_request[t],
                                AuditModuleLoaded, k, instance, TRUE, fault)
       IN /\ entities' = entities \cup { instance }
          /\ nextId' = [ nextId EXCEPT ![k] = @ + 1 ]
          /\ Commit(db)
          /\ ops' = ops + 1
          /\ last' = [ op |-> "create", kind |-> k, id |-> instance.id,
                       ctx |-> thread_request[t], by |-> By(t),
                       fault |-> db.failed,
                       outcome |-> IF db.raised THEN "raised" ELSE "ok" ]
    /\ pending' = [ pending EXCEPT ![t] = NoCreate ]
    /\ UNCHANGED << middleware, thread_request, running, deleted_count,
                    rateVars, schedVars, users >>

BeginSaves(T, K, N) ==
    /\ ops < N
    /\ \E t \in T, k \in K, file \in BOOLEAN : BeginSave(t, k, file)
FinishSaves(T, F) == \E t \in T, fault \in F : FinishSave(t, fault)

\* How many creates and updates the singleton runs make.
MaxSingletonOps == 3

\* Two logged-in users, each on a worker, create and save again rows of the
\* three singleton models in the admin.
NextSingleton ==
    \/ Begins(Workers, { "req_alice", "req_bob" })
    \/ Ends(Workers)
    \/ BeginSaves(Workers, Singletons, MaxSingletonOps)
    \/ FinishSaves(Workers, { "none" })
    \/ Updates(Workers, { "none" }, MaxSingletonOps)

SpecSingleton == InitShipped /\ [][NextSingleton]_vars


\* ------------------------------------------------- writes and their audit
\* How many writes the runs of one audited worker make.
MaxWriteOps == 3

\* One worker serves a logged-in user and an anonymous client, who create
\* and save again banners and the head pastor (a singleton that carries a
\* tracked picture); the AuditLog insert may fail.  The middleware is
\* mounted or not.
NextWrites ==
    \/ Begins({ "w1" }, { "req_alice", "req_anon" })
    \/ Ends({ "w1" })
    \/ Creates({ "w1" }, { "HomeBanner", "HeadPastor" }, { "none", "audit" },
               MaxWriteOps)
    \/ Updates({ "w1" }, { "none", "audit" }, MaxWriteOps)

SpecWrites == Init /\ [][NextWrites]_vars


\* ------------------------------------------- refresh beside audited writes
\* The scheduler's job refreshes the rates, one code per run, while alice's
\* requests create banners on the two workers; the middleware is mounted or
\* not.
NextRatesAudit ==
    \/ Begins(Workers, { "req_alice" })
    \/ Ends(Workers)
    \/ Creates(Workers, { "HomeBanner" }, { "none" }, MaxOps)
    \/ StartsRefresh({ SchedulerThread }, { "ok" },
                     Feeds({ v \in JsonValues : v.type = "number"
                                                  /\ v.value # 123456 }, 1),
                     MaxRefreshes)
    \/ Gets({ SchedulerThread })
    \/ Inserts({ SchedulerThread })
    \/ Saves({ SchedulerThread })

SpecRatesAudit == Init /\ [][NextRatesAudit]_vars


\* ================================================================= claims
\* A step that is one write or login attempt.
Acted == ops' = ops + 1

\* The rows a step appended to AuditLog (none if it appended nothing).
Appended ==
    IF Len(auditLogs') >= Len(auditLogs)
         /\ SubSeq(auditLogs', 1, Len(auditLogs)) = auditLogs
    THEN SubSeq(auditLogs', Len(auditLogs) + 1, Len(auditLogs'))
    ELSE << >>

\* The row of `rows` the last write was about.
Row(rows, op) == CHOOSE e \in rows : e.kind = op.kind /\ e.id = op.id
HasRow(rows, op) == \E e \in rows : e.kind = op.kind /\ e.id = op.id

\* C1: every create or update of a tracked model made in a request of a
\* logged-in user, with nothing failing, appends exactly one AuditLog row,
\* CREATE for a first save and UPDATE for a later one, whose user is that
\* user.
C1_OneEventPerWrite ==
    [][ ( /\ Acted
          /\ last'.op \in { "create", "update" }
          /\ last'.kind \in TRACKED_MODELS
          /\ last'.outcome = "ok"
          /\ last'.fault = "none"
          /\ last'.by # None
          /\ Request[last'.by].is_authenticated )
        => ( /\ Len(Appended) = 1
             /\ Appended[1].action =
                  (IF last'.op = "create" THEN "CREATE" ELSE "UPDATE")
             /\ Appended[1].user = Request[last'.by].user ) ]_vars

\* C2: a create, update or delete made on a thread that has no request
\* attached, or the request of an anonymous user, leaves AuditLog as it was
\* and is not failed by the recorder.
C2_NoActorNoEvent ==
    [][ ( /\ Acted
          /\ last'.op \in { "create", "update", "delete" }
          /\ \/ last'.ctx = NoAttr
             \/ ~Request[last'.ctx].is_authenticated )
        => ( /\ auditLogs' = auditLogs
             /\ last'.outcome \in { "ok", "rejected" } ) ]_vars

\* An anonymous request, with the middleware mounted, wrote a row.
C2_Witness ==
    /\ AuditModuleLoaded
    /\ last.op \in { "create", "update", "delete" }
    /\ last.outcome = "ok"
    /\ last.ctx = "req_anon"

\* C3: a failed login of an anonymous client appends exactly one AuditLog
\* row, PERMISSION_DENIED with no user and the IP address and user agent of
\* the failing request.
C3_FailedLoginRecorded ==
    [][ ( /\ Acted
          /\ last'.op = "login_failed"
          /\ last'.fault = "none" )
        => ( /\ Len(Appended) = 1
             /\ Appended[1].action = "PERMISSION_DENIED"
             /\ Appended[1].user = None
             /\ Appended[1].ip_address = get_client_ip(Request[last'.by])
             /\ Appended[1].user_agent = get_user_agent(Request[last'.by]) ) ]_vars

\* C4: when the AuditLog insert fails during a create, update or delete, the
\* writer sees no exception and the row is written, or gone, as it would be
\* had the insert succeeded.
C4_AuditFailureSwallowed ==
    [][ ( /\ Acted
          /\ last'.op \in { "create", "update", "delete" }
          /\ last'.fault = "audit" )
        => ( /\ last'.outcome = "ok"
             /\ (last'.op = "delete") = ~HasRow(entities', last') ) ]_vars

\* C5: a worker that serves a request sees that request as its context (or
\* none, when the middleware is not mounted), the scheduler's thread sees
\* none, and every AuditLog row a step appends carries the user, IP address
\* and user agent of the request the step was made in.
C5_ContextIsolated ==
    /\ [](/\ \A t \in Workers :
               running[t] # None =>
                 thread_request[t] =
                   (IF AuditLoggingMiddleware \in middleware
                    THEN running[t] ELSE NoAttr)
          /\ thread_request[SchedulerThread] = NoAttr)
    /\ [][ (Acted /\ Len(Appended) > 0)
           => ( /\ last'.by # None
                /\ \A i \in 1..Len(Appended) :
                     /\ Appended[i].ip_address = get_client_ip(Request[last'.by])
                     /\ Appended[i].user_agent = get_user_agent(Request[last'.by])
                     /\ Appended[i].user =
                          (IF last'.op = "login_failed" THEN None
                           ELSE Request[last'.by].user) ) ]_vars

\* Two workers serve different requests at once and the last write, made in
\* one of them, was recorded.
C5_Witness ==
    /\ running["w1"] = "req_alice"
    /\ running["w2"] = "req_bob"
    /\ last.op = "create"
    /\ last.by = "req_alice"
    /\ Len(auditLogs) = 2
    /\ auditLogs[1].user = "bob"
    /\ auditLogs[2].user = "alice"

\* C6: a worker that serves no request has no context.
C6_SlotCleared ==
    \A t \in Workers : running[t] = None => thread_request[t] = NoAttr

\* The models of the image-bearing registry.
Registry ==
    { "HomeBanner", "HeadPastor", "Leader", "PhotoGallery", "Sermon", "Event",
      "GivingImage", "Branch", "Merchandise" }

\* The ImageLog rows that point at the row the write `op` was about.
LogsOf(logs, op) ==
    { l \in logs : l.content_type = op.kind /\ l.object_id = op.id }

\* C7: a delete of a row of an image-bearing model removes the ImageLog rows
\* whose content type and object id are that row's, and no other.
C7_DeleteRemovesOwnLogs ==
    [][ ( /\ Acted
          /\ last'.op = "delete"
          /\ last'.outcome = "ok"
          /\ last'.kind \in Registry )
        => imageLogs' = imageLogs \ LogsOf(imageLogs, last') ]_vars

\* Two ImageLog rows were made, a delete removed the one of the deleted row
\* and the one left points at a row of another model with the same id.
C7_Witness ==
    /\ last.op = "delete"
    /\ last.outcome = "ok"
    /\ last.kind \in Registry
    /\ nextImageLogId = 3
    /\ Cardinality(imageLogs) = 1
    /\ \E l \in imageLogs : l.object_id = last.id /\ l.content_type # last.kind

\* C8: a create of a row of an image-bearing model, with nothing failing,
\* adds exactly one ImageLog row, pointing at the new row and labelled by
\* section_mapping, when the row's file field holds a file, and none when it
\* holds none.
C8_CreateLogsImage ==
    [][ ( /\ Acted
          /\ last'.op = "create"
          /\ last'.outcome = "ok"
          /\ last'.fault = "none"
          /\ last'.kind \in Registry )
        => ( /\ imageLogs \subseteq imageLogs'
             /\ LET new == imageLogs' \ imageLogs IN
                IF Row(entities', last').file
                THEN /\ Cardinality(new) = 1
                     /\ \A l \in new :
                          /\ l.content_type = last'.kind
                          /\ l.object_id = last'.id
                          /\ l.section_name = section_mapping[last'.kind]
                ELSE new = {} ) ]_vars

\* C9: a save of a row that exists leaves ImageLog as it was.
C9_UpdateLogsNothing ==
    [][ (Acted /\ last'.op = "update")
        => (imageLogs' = imageLogs /\ nextImageLogId' = nextImageLogId) ]_vars

\* A row created without a file was given one by an update, and no ImageLog
\* row points at it.
C9_Witness ==
    /\ last.op = "update"
    /\ last.outcome = "ok"
    /\ last.kind = "HomeBanner"
    /\ HasRow(entities, last)
    /\ Row(entities, last).file
    /\ LogsOf(imageLogs, last) = {}

\* C10: a create during which a step of the image tracker fails (the content
\* type lookup, reading the file size, the ImageLog insert) still succeeds.
C10_TrackerNeverFailsCreate ==
    [][ ( /\ Acted
          /\ last'.op = "create"
          /\ last'.fault \in { "content_type", "file_size", "image_log" } )
        => last'.outcome = "ok" ]_vars


\* The ImageLog rows of the models in `models` whose object is not in `rows`.
Orphans(logs, rows, models) ==
    { l \in logs :
        /\ \E i \in 1..Len(models) : models[i] = l.content_type
        /\ ~\E e \in rows : e.kind = l.content_type /\ e.id = l.object_id }

\* C11: a run of cleanup_image_logs deletes exactly the ImageLog rows of the
\* checked models whose object no longer exists, leaves every other ImageLog
\* row and every content row in place, and counts the rows it deleted.
C11_ReconcileDeletesOrphans ==
    [][ (Acted /\ last'.op = "reconcile")
        => ( /\ imageLogs' = imageLogs \ Orphans(imageLogs, entities, models_to_check)
             /\ deleted_count' =
                  Cardinality(Orphans(imageLogs, entities, models_to_check))
             /\ entities' = entities ) ]_vars

\* Two ImageLog rows were made; a sweep deleted the one whose object is gone
\* and kept the one whose object still exists.
C11_Witness ==
    /\ last.op = "reconcile"
    /\ deleted_count = 1
    /\ nextImageLogId = 3
    /\ Cardinality(imageLogs) = 1
    /\ \A l \in imageLogs :
         \E e \in entities : e.kind = l.content_type /\ e.id = l.object_id


\* C12: a run of cleanup_image_logs that follows another run, with no write
\* in between, deletes nothing and counts 0.
C12_ReconcileIdempotent ==
    [][ (Acted /\ last.op = "reconcile" /\ last'.op = "reconcile")
        => (deleted_count' = 0 /\ imageLogs' = imageLogs) ]_vars

\* One row was created with an image and is gone, its ImageLog row has been
\* swept, and the fourth operation was a sweep that counted nothing.
C12_Witness ==
    /\ ops = 4
    /\ last.op = "reconcile"
    /\ deleted_count = 0
    /\ nextImageLogId = 2
    /\ imageLogs = {}
    /\ entities = {}


\* The response on the screen was made against the table as it stands.
Fresh == response.at = now /\ response.book_id \in DOMAIN Books

\* The row of a currency code (there is one).
RateOf(currency_code) ==
    CHOOSE r \in exchange_rates : r.currency_code = currency_code

\* C13: a price asked in USD, in whatever case the code is written, is the
\* book's price itself, whatever rows the table holds, and no ExchangeRate
\* query is made for it.
C13_UsdUnchanged ==
    ( /\ response.book_id \in DOMAIN Books
      /\ upper(response.param) = "USD" )
    => ( /\ response.status = 200
         /\ response.success
         /\ response.converted_price = Books[response.book_id]
         /\ response.original_price = Books[response.book_id]
         /\ response.currency_code = "USD"
         /\ response.queries = 0 )

\* A price was asked in USD while the table holds a USD row whose rate is
\* not 1.
C13_Witness ==
    /\ Fresh
    /\ response.param = "usd"
    /\ response.converted_price = 1000
    /\ \E r \in exchange_rates : r.currency_code = "USD" /\ r.rate # Million

\* C14: a price asked in a currency other than USD that has a row is the
\* book's price times the row's rate, to the nearest cent: 10.00 at 12.5 is
\* 125.00.
C14_ConvertedByRate ==
    ( /\ Fresh
      /\ upper(response.param) # "USD"
      /\ \E r \in exchange_rates : r.currency_code = upper(response.param) )
    => LET rate == RateOf(upper(response.param)).rate
           price == Books[response.book_id]
           \* price * rate = (cents + rest / Million) cents
           cents == price * (rate \div Million)
                      + (price * (rate % Million)) \div Million
           rest == (price * (rate % Million)) % Million
       IN /\ response.status = 200
          /\ response.success
          /\ response.exchange_rate = rate
          /\ \/ response.converted_price = cents /\ 2 * rest <= Million
             \/ response.converted_price = cents + 1 /\ 2 * rest >= Million
          /\ (price = 1000 /\ rate = 12500000)
               => response.converted_price = 12500

\* 0.05 at 0.123456 is 0.0062, which is 0.01 to the nearest cent.
C14_Witness ==
    /\ Fresh
    /\ response.book_id = 2
    /\ response.param = "ghs"
    /\ \E r \in exchange_rates : r.currency_code = "GHS" /\ r.rate = 123456
    /\ response.converted_price = 1

\* C15: a price asked in a currency that has no row is answered 404 with
\* the codes the table holds, each once, and asking changes nothing but the
\* response.
C15_UnknownCurrency ==
    /\ []( ( /\ Fresh
             /\ upper(response.param) # "USD"
             /\ ~\E r \in exchange_rates :
                   r.currency_code = upper(response.param) )
           => ( /\ response.status = 404
                /\ ~response.success
                /\ { response.available_currencies[i] :
                       i \in 1..Len(response.available_currencies) }
                     = { r.currency_code : r \in exchange_rates }
                /\ Len(response.available_currencies)
                     = Cardinality(exchange_rates) ) )
    /\ [][ response' # response
           => UNCHANGED << middleware, thread_request, running, entities,
                           nextId, imageLogs, nextImageLogId, auditLogs, ops,
                           last, deleted_count, exchange_rates, now, jobs,
                           refresh, refreshes, refreshed >> ]_vars

\* ZZZ was asked while the table holds a GHS row.
C15_Witness ==
    /\ Fresh
    /\ response.param = "ZZZ"
    /\ response.status = 404
    /\ \E i \in 1..Len(response.available_currencies) :
          response.available_currencies[i] = "GHS"


\* C16: the table never holds two rows of one currency code; a step of a
\* refresh keeps every row under its id and code, and adds a row only for a
\* code that had none.
C16_OneRowPerCode ==
    /\ [](\A r1, r2 \in exchange_rates :
             r1.currency_code = r2.currency_code => r1 = r2)
    /\ [][ /\ \A r \in exchange_rates :
                \E r2 \in exchange_rates' :
                    r2.id = r.id /\ r2.currency_code = r.currency_code
           /\ \A r2 \in exchange_rates' :
                (\A r \in exchange_rates : r.id # r2.id)
                  => (\A r \in exchange_rates :
                         r.currency_code # r2.currency_code) ]_vars

\* Two runs have upserted one code: the first inserted its row and the second
\* saved its own rate into that row.
C16_Witness ==
    /\ refreshed.step = "save"
    /\ refreshed.result = "written"
    /\ refresh[SchedulerThread].pc = "idle"
    /\ refresh["operator"].pc = "idle"
    /\ refreshes = 2
    /\ nextId["ExchangeRate"] = 2
    /\ \E r \in exchange_rates :
          /\ r.id = 1
          /\ r.last_updated = 2
          /\ r.rate = refreshed.rate
    /\ Cardinality(exchange_rates) = 1


C18_ConcurrentRefresh ==
    /\ [](\A r \in exchange_rates : r.rate # NoRate /\ r.currency_name # "")
    /\ [][ now' # now
           => \A r \in exchange_rates' :
                 r.currency_code = Item(refreshed'.by).currency_code
                   => r.rate = to_python(Item(refreshed'.by).rate).rate ]_vars
    /\ [](ENABLED Convert(1, "GHS", TRUE))
    /\ \A p \in Runners : (refresh[p].pc # "idle") ~> (refresh[p].pc = "idle")

\* Two runs were at the same code, which had no row: one has inserted it and
\* the INSERT of the other has just failed on the unique constraint.
C18_Witness ==
    /\ refreshed.step = "insert"
    /\ refreshed.result = "retry"
    /\ refresh[refreshed.by].pc = "get"
    /\ \E r \in exchange_rates :
          /\ r.currency_code = refreshed.currency_code
          /\ r.last_updated = 1


\* C19: a run that meets a value that is no number skips that item and goes
\* on with the items after it.
C19_MalformedSkipped ==
    [][ \A p \in Runners :
          ( /\ refresh[p].pc \in { "insert", "save" }
            /\ refresh'[p] # refresh[p]
            /\ ~to_python(Item(p).rate).ok )
          => ( /\ refresh'[p].rates = Tail(refresh[p].rates)
               /\ refresh'[p].pc = (IF Len(refresh[p].rates) > 1
                                     THEN "get" ELSE "idle") ) ]_vars


\* C20: a run whose fetch times out, fails in transport, is answered with an
\* error status or an unreadable body, or brings no rates, makes one GET,
\* writes no row, raises nothing and is over; the job stays in the job store
\* and the scheduler can fire it again.
C20_FetchFailureAbandons ==
    /\ [][ (refreshes' = refreshes + 1 /\ refreshed'.fetch # "ok")
           => ( /\ exchange_rates' = exchange_rates
                /\ now' = now
                /\ refreshed'.result = "abandoned"
                /\ refreshed'.fetches = 1
                /\ refresh'[refreshed'.by].pc = "idle"
                /\ jobs' = jobs ) ]_vars
    /\ []( ( /\ refreshed.step = "fetch"
             /\ refreshed.fetch # "ok"
             /\ refreshed.by = SchedulerThread )
           => ENABLED StartRefresh(SchedulerThread, "ok", << >>) )

\* The table holds a row and the run the scheduler has just fired timed out.
C20_Witness ==
    /\ refreshed.step = "fetch"
    /\ refreshed.fetch = "timeout"
    /\ refreshed.result = "abandoned"
    /\ refreshed.by = SchedulerThread
    /\ exchange_rates # {}
    /\ refreshes = 2


\* C21: however often setup_scheduler() has run, at most one timer of the
\* process fires the job update_exchange_rates.
C21_OneTimer ==
    Len(SelectSeq(jobs, LAMBDA id : id = JobId)) <= 1


\* C22: a scheduler that wakes up for the midnight run within 15 minutes of
\* it submits the run, one that wakes up later skips it, and either way the
\* job's next run time is the midnight of the following day.
C22_MisfireGrace ==
    [][ wakeup' # wakeup
        => ( /\ (wakeup'.delay <= 15 * 60) => wakeup'.outcome = "run"
             /\ (wakeup'.delay > 15 * 60) => wakeup'.outcome = "missed"
             /\ next_run'[wakeup'.timer] = wakeup'.day + 1 ) ]_vars

C24_AuditRowsImmutable ==
    [][ /\ Len(auditLogs') >= Len(auditLogs)
        /\ \A i \in 1..Len(auditLogs) :
              i <= Len(auditLogs') => auditLogs'[i] = auditLogs[i]
        /\ Len(auditLogs') > Len(auditLogs) =>
              last'.op \in { "create", "update", "delete", "login_failed" }
      ]_vars


\* C25: in every reachable state there is at most one row of ChurchInfo, of
\* HeadPastor and of GivingInfo, whatever the interleaving of the creates; a
\* create made while a row exists is rejected and adds no row, and saving
\* the existing row again goes through.
C25_AtMostOneSingleton ==
    /\ [](\A k \in Singletons :
             Cardinality({ e \in entities : e.kind = k }) <= 1)
    /\ [][ /\ (Acted /\ last'.op = "create" /\ last'.outcome = "rejected")
                => entities' = entities
           /\ (Acted /\ last'.op = "update" /\ last'.kind \in Singletons)
                => last'.outcome = "ok"
         ]_vars


\* C26: a client that is not logged in can read but cannot write: a create,
\* update or delete sent to an entity endpoint such as /api/banners/ by an
\* unauthenticated client is denied and changes no row.
C26_AnonymousWriteDenied ==
    [][ (/\ Acted
         /\ last'.op \in { "create", "update", "delete" }
         /\ last'.by \in RequestIds
         /\ ~Request[IF last'.by \in RequestIds THEN last'.by ELSE "req_anon"]
                .is_authenticated)
        => /\ entities' = entities
           /\ last'.outcome = "denied"
      ]_vars


C28_RefreshNotAudited ==
    /\ "ExchangeRate" \in TRACKED_MODELS
    /\ [](thread_request[SchedulerThread] = NoAttr)
    /\ [](\A i \in 1..Len(auditLogs) : auditLogs[i].model_name # "ExchangeRate")
    /\ [][ refresh'[SchedulerThread] # refresh[SchedulerThread]
             => auditLogs' = auditLogs ]_vars

\* The scheduler's run has just updated the row it had inserted before,
\* while alice, whose banner is in the audit log, has a request in flight on
\* each worker.
C28_Witness ==
    /\ AuditModuleLoaded
    /\ \A w \in Workers : thread_request[w] = "req_alice" /\ running[w] = "req_alice"
    /\ \E i \in 1..Len(auditLogs) : auditLogs[i].user = "alice"
    /\ refreshed.by = SchedulerThread
    /\ refreshed.step = "save"
    /\ refreshed.result = "written"
    /\ exchange_rates # {}


\* C29: when rows of image-bearing models are created and deleted through
\* save() and delete() alone, cascades included, every ImageLog row points
\* at a row that exists, in every state between operations, so that a run of
\* cleanup_image_logs started there would delete nothing.
C29_NoOrphanBetweenWrites ==
    /\ \A l \in imageLogs :
          \E e \in entities : e.kind = l.content_type /\ e.id = l.object_id
    /\ cleanup_image_logs(imageLogs, entities, models_to_check)
          = [ imageLogs |-> imageLogs, deleted_count |-> 0 ]

\* A GivingInfo was deleted after a GivingImage with a file had been created
\* under it: the cascade took the image and the image's ImageLog row.
C29_Witness ==
    /\ last.op = "delete"
    /\ last.kind = "GivingInfo"
    /\ last.outcome = "ok"
    /\ nextId["GivingImage"] = 2
    /\ nextImageLogId = 2
    /\ imageLogs = {}
    /\ entities = {}


\* C30: a delete of a row of a tracked model, made in a request of a
\* logged-in user with nothing failing, appends exactly one DELETE row to
\* AuditLog for that row, with that user, the row's id and the display text
\* the row had; the AuditLog row stays when the row is gone.
C30_DeleteAudited ==
    [][ ( /\ Acted
          /\ last'.op = "delete"
          /\ last'.kind \in TRACKED_MODELS
          /\ last'.outcome = "ok"
          /\ last'.fault = "none"
          /\ last'.by \in { "req_alice", "req_bob" } )
        => /\ ~HasRow(entities', last')
           /\ Len(SelectSeq(Appended,
                    LAMBDA a : /\ a.action = "DELETE"
                               /\ a.model_name = last'.kind
                               /\ a.object_id = last'.id)) = 1
           /\ \A i \in 1..Len(Appended) :
                 /\ Appended[i].action = "DELETE"
                 /\ Appended[i].user = Request[last'.by].user
                 /\ (Appended[i].object_id = last'.id =>
                       Appended[i].object_repr = Str(Row(entities, last')))
      ]_vars

====
